---- MODULE Spec2Model ----
(***************************************************************************)
(* Model of the OpenSea tool servers of arbitrum-vibekit:                  *)
(*   - osFetch of the read server (p-retry around undici fetch),           *)
(*   - the read tool handlers (get_listings_by_asset, get_offers_by_asset  *)
(*     and the single-query tools),                                        *)
(*   - the OpenSea / Magic Eden plugins and the plugin registry.           *)
(* Text is a sequence of one-character strings, so that the regular        *)
(* expression of isRateLimitOrTransient is evaluated on the message the    *)
(* code builds.                                                            *)
(***************************************************************************)
EXTENDS Integers, Sequences, FiniteSets, TLC

VARIABLES
    inv,       \* the invocations of the read tools and of the plugin skill
    registry,  \* the plugin registry: id -> implementation
    regLog,    \* the plugins passed to registerNftPlugin so far, in order
    wr,        \* the write server: its gate and the last write tool call
    calc       \* a function applied to an input: the input and the result

vars == <<inv, registry, regLog, wr, calc>>

(***************************************************************************)
(* Bounds of the model.                                                    *)
(***************************************************************************)
\* number of sample points of Math.random() in [0, 1)
NumJitter == 2

(***************************************************************************)
(* Program constants.                                                      *)
(***************************************************************************)
factor == 2
minTimeout == 500
maxTimeout == 4000
retries == 4
ArbitrumChainId == 42161

(***************************************************************************)
(* Text helpers.                                                           *)
(***************************************************************************)
Digits == {"0", "1", "2", "3", "4", "5", "6", "7", "8", "9"}

DigitChar(d) ==
    CASE d = 0 -> "0" [] d = 1 -> "1" [] d = 2 -> "2" [] d = 3 -> "3"
      [] d = 4 -> "4" [] d = 5 -> "5" [] d = 6 -> "6" [] d = 7 -> "7"
      [] d = 8 -> "8" [] d = 9 -> "9"

\* String(res.status) for a three-digit status
StatusText(s) == <<DigitChar(s \div 100), DigitChar((s \div 10) % 10), DigitChar(s % 10)>>

\* the /i flag of the regular expression: compare lower-cased
LowerChar(c) ==
    CASE c = "A" -> "a" [] c = "E" -> "e" [] c = "I" -> "i" [] c = "K" -> "k"
      [] c = "M" -> "m" [] c = "N" -> "n" [] c = "O" -> "o" [] c = "P" -> "p"
      [] c = "R" -> "r" [] c = "S" -> "s" [] c = "T" -> "t" [] c = "U" -> "u"
      [] c = "W" -> "w" [] OTHER -> c

Lower(s) == [i \in 1..Len(s) |-> LowerChar(s[i])]

HasSub(s, p) == \E i \in 1..(Len(s) - Len(p) + 1) : SubSeq(s, i, i + Len(p) - 1) = p

\* 5\d\d
HasFiveXX(s) == \E i \in 1..(Len(s) - 2) : s[i] = "5" /\ s[i + 1] \in Digits /\ s[i + 2] \in Digits

\* /429|5\d\d|rate|timeout|network/i.test(message)
RetryPattern(m) ==
    \/ HasSub(m, <<"4", "2", "9">>)
    \/ HasFiveXX(m)
    \/ HasSub(Lower(m), <<"r", "a", "t", "e">>)
    \/ HasSub(Lower(m), <<"t", "i", "m", "e", "o", "u", "t">>)
    \/ HasSub(Lower(m), <<"n", "e", "t", "w", "o", "r", "k">>)

(***************************************************************************)
(* Addresses and token ids.  A value is [type, text]: type is the         *)
(* JavaScript type ("string", "number"), text its characters.              *)
(***************************************************************************)
Whitespace == {" ", "\t"}

RECURSIVE TrimStart(_)
TrimStart(s) == IF s # <<>> /\ Head(s) \in Whitespace THEN TrimStart(Tail(s)) ELSE s

RECURSIVE TrimEnd(_)
TrimEnd(s) ==
    IF s # <<>> /\ s[Len(s)] \in Whitespace THEN TrimEnd(SubSeq(s, 1, Len(s) - 1)) ELSE s

\* String.prototype.trim
trim(s) == TrimEnd(TrimStart(s))

LowerHexChar(c) ==
    CASE c = "B" -> "b" [] c = "C" -> "c" [] c = "D" -> "d" [] c = "F" -> "f"
      [] c = "X" -> "x" [] OTHER -> LowerChar(c)

\* variant: the text is left in the case it has
toLowerCaseKeep(s) == s

\* String.prototype.toLowerCase
toLowerCase(s) == [i \in 1..Len(s) |-> LowerHexChar(s[i])]

AddressHexLength == 40

\* /^0x[a-f0-9]{40}$/i.test(s)
AddressPattern(s) ==
    /\ Len(s) = AddressHexLength + 2
    /\ s[1] = "0"
    /\ s[2] \in {"x", "X"}
    /\ \A i \in 3..Len(s) :
            s[i] \in Digits \cup {"a", "b", "c", "d", "e", "f"} \cup {"A", "B", "C", "D", "E", "F"}

StringValue(text) == [type |-> "string", text |-> text]
NumberValue(text) == [type |-> "number", text |-> text]

ParseSuccess(data) == [success |-> TRUE, data |-> data, issue |-> "none"]
ParseFailure(issue) == [success |-> FALSE, data |-> <<>>, issue |-> issue]

\* EthAddressSchema.safeParse(v): z.preprocess(trim and lower-case a string),
\* then z.string().regex(...)
EthAddressSchema(v) ==
    LET p == IF v.type = "string" THEN StringValue(toLowerCase(trim(v.text))) ELSE v
    IN  IF p.type # "string" THEN ParseFailure("Expected string")
        ELSE IF ~AddressPattern(p.text)
        THEN ParseFailure("address must be a 42-char 0x-prefixed hex string")
        ELSE ParseSuccess(p.text)

\* String(v)
ToStringValue(v) == StringValue(v.text)

\* hex parts of addresses: lower case, mixed case, upper case, one digit
\* short, one digit long, with a letter that is not hex, with a blank inside
HexLower ==
    <<"e", "6", "2", "7", "0", "e", "4", "6", "c", "9",
      "f", "9", "9", "f", "0", "0", "d", "4", "5", "9",
      "c", "a", "7", "0", "7", "2", "9", "8", "d", "8",
      "6", "7", "9", "f", "4", "4", "b", "9", "a", "e">>
HexMixed ==
    <<"E", "6", "2", "7", "0", "e", "4", "6", "C", "9",
      "F", "9", "9", "f", "0", "0", "D", "4", "5", "9",
      "c", "A", "7", "0", "7", "2", "9", "8", "d", "8",
      "6", "7", "9", "F", "4", "4", "B", "9", "a", "E">>
HexUpper ==
    <<"E", "6", "2", "7", "0", "E", "4", "6", "C", "9",
      "F", "9", "9", "F", "0", "0", "D", "4", "5", "9",
      "C", "A", "7", "0", "7", "2", "9", "8", "D", "8",
      "6", "7", "9", "F", "4", "4", "B", "9", "A", "E">>

\* what a caller can pass as an address
AddressInputs ==
    {StringValue(l \o p \o h \o t) :
        l \in {<<>>, <<" ">>, <<"\t", " ">>},
        p \in {<<"0", "x">>, <<"0", "X">>, <<"1", "x">>, <<>>},
        h \in {HexLower, HexMixed, HexUpper,
               SubSeq(HexLower, 1, AddressHexLength - 1),
               HexLower \o <<"0">>,
               <<"g">> \o SubSeq(HexMixed, 2, AddressHexLength),
               SubSeq(HexMixed, 1, 4) \o <<" ">> \o SubSeq(HexMixed, 6, AddressHexLength)},
        t \in {<<>>, <<" ">>}}
      \cup {NumberValue(<<"4", "2">>)}

(***************************************************************************)
(* Errors.  cls is the class of the thrown value; an AbortError carries    *)
(* the message of the error it wraps and keeps it as originalError.        *)
(***************************************************************************)
ErrorClasses == {"Error", "TypeError", "SyntaxError", "AbortError"}

NewError(cls, message) == [cls |-> cls, message |-> message]

\* p-retry: new AbortError(error)
AbortError(e) == [cls |-> "AbortError", message |-> e.message, originalError |-> e]

IsErrorInstance(e) == e.cls \in ErrorClasses

isRateLimitOrTransient(e) ==
    IF ~IsErrorInstance(e) THEN FALSE ELSE RetryPattern(e.message)

\* `OpenSea API error ${res.status}: ${text}`
ApiErrorPrefix == <<"O", "p", "e", "n", "S", "e", "a", " ", "A", "P", "I", " ", "e", "r", "r", "o", "r", " ">>

ApiErrorMessage(status, text) == ApiErrorPrefix \o StatusText(status) \o <<":", " ">> \o text


(***************************************************************************)
(* HTTP responses, as the environment produces them.                       *)
(*   kind "status"  : a response with res.ok false, status and body text   *)
(*   kind "ok"      : a 2xx response whose body decodes to data            *)
(*   kind "badjson" : a 2xx response whose res.json() throws err           *)
(*   kind "throw"   : fetch itself throws err                              *)
(***************************************************************************)
Null == "null"

NoData == [id |-> "none", orders |-> "absent"]
NoHeaders == [limit |-> Null, remaining |-> Null, reset |-> Null]
NoError == NewError("none", <<>>)

StatusResp(status, body) ==
    [kind |-> "status", status |-> status, body |-> body, data |-> NoData,
     headers |-> NoHeaders, err |-> NoError]

OkResp(data, headers) ==
    [kind |-> "ok", status |-> 200, body |-> <<>>, data |-> data,
     headers |-> headers, err |-> NoError]

BadJsonResp(e) ==
    [kind |-> "badjson", status |-> 200, body |-> <<>>, data |-> NoData,
     headers |-> NoHeaders, err |-> e]

\* a response with res.ok false that carries x-ratelimit-* headers
LimitedResp(status, body, headers) ==
    [kind |-> "status", status |-> status, body |-> body, data |-> NoData,
     headers |-> headers, err |-> NoError]

ThrowResp(e) ==
    [kind |-> "throw", status |-> 0, body |-> <<>>, data |-> NoData,
     headers |-> NoHeaders, err |-> e]

\* response bodies of failed requests
BodyEmpty == <<>>
BodyPlain == <<"n", "o", "p", "e">>
BodyRate == <<"R", "a", "t", "e">>

AllBodies ==
    { BodyEmpty, BodyPlain, BodyRate,
      <<"t", "i", "m", "e", "o", "u", "t">>, <<"n", "e", "t", "w", "o", "r", "k">>,
      <<"4", "2", "9">>, <<"5", "0", "0">> }

\* thrown failures: undici's fetch rejects with TypeError('fetch failed');
\* JSON.parse rejects with a SyntaxError that quotes the body
FetchFailed == NewError("TypeError", <<"f", "e", "t", "c", "h", " ", "f", "a", "i", "l", "e", "d">>)
JsonPlain == NewError("SyntaxError", <<"U", "n", "e", "x", "p", "e", "c", "t", "e", "d", " ", "<">>)
JsonRate == NewError("SyntaxError", <<"U", "n", "e", "x", "p", "e", "c", "t", "e", "d", " ", "r", "a", "t", "e">>)

\* decoded payloads: the orders member is an empty array, a non-empty array, or no array
Payloads == [id : {"A", "B"}, orders : {"empty", "some", "absent"}]

HeaderSets ==
    { NoHeaders,
      [limit |-> Null, remaining |-> "59", reset |-> Null],
      [limit |-> "60", remaining |-> "58", reset |-> "17"] }

\* the headers of a 429 response
ExhaustedHeaders == [limit |-> "60", remaining |-> "0", reset |-> "30"]

\* variant: remaining is read from the limit header
extractRateLimitOfLimit(headers) ==
    [limit |-> headers.limit, remaining |-> headers.limit, reset |-> headers.reset]

extractRateLimit(headers) ==
    [limit |-> headers.limit, remaining |-> headers.remaining, reset |-> headers.reset]

(***************************************************************************)
(* One attempt of osFetch: the async function handed to pRetry.            *)
(* The result is [ret |-> "return", value] or [ret |-> "throw", error].    *)
(***************************************************************************)
Return(v) == [ret |-> "return", value |-> v, error |-> NoError]
Throw(e) == [ret |-> "throw", value |-> Null, error |-> e]

\* variant: only server errors are thrown as retryable
IsRetryableStatusServerOnly(status) == status >= 500

IsRetryableStatus(status) == status = 429 \/ status >= 500

\* the body of the try block
AttemptTry(resp) ==
    CASE resp.kind = "throw" -> Throw(resp.err)
      [] resp.kind = "status" ->
            LET err == NewError("Error", ApiErrorMessage(resp.status, resp.body))
            IN  IF IsRetryableStatus(resp.status) THEN Throw(err) ELSE Throw(AbortError(err))
      [] resp.kind = "badjson" -> Throw(resp.err)
      [] resp.kind = "ok" ->
            Return([data |-> resp.data, rateLimit |-> extractRateLimit(resp.headers)])

\* variant: an error whose message matches is rethrown as a plain error
AttemptCatchRethrowPlain(err) ==
    IF isRateLimitOrTransient(err) THEN Throw(NewError("Error", err.message)) ELSE Throw(AbortError(err))

\* variant: every caught error is rethrown as it is, none is wrapped
AttemptCatchNoWrap(err) == Throw(err)

\* the catch block around it
AttemptCatch(err) ==
    IF isRateLimitOrTransient(err) THEN Throw(err) ELSE Throw(AbortError(err))

Attempt(resp) ==
    LET t == AttemptTry(resp)
    IN  IF t.ret = "throw" THEN AttemptCatch(t.error) ELSE t

(***************************************************************************)
(* The retry package: timeouts are computed when the operation is created. *)
(* Math.random() is drawn in thousandths: rnd in 0..999 stands for         *)
(* rnd/1000.                                                               *)
(***************************************************************************)
Pow(b, n) == IF n = 0 THEN 1 ELSE IF n = 1 THEN b ELSE IF n = 2 THEN b * b ELSE b * b * b

Min(a, b) == IF a < b THEN a ELSE b
Max(a, b) == IF a > b THEN a ELSE b

\* Math.round of x/1000 for x >= 0
RoundThousandths(x) == (x + 500) \div 1000

\* variant: the timeout is not capped at maxTimeout
CreateTimeoutUncapped(attempt, rnd) ==
    RoundThousandths((1000 + rnd) * Max(minTimeout, 1) * Pow(factor, attempt))

\* Math.min(Math.round(random * Math.max(minTimeout, 1) * Math.pow(factor, attempt)), maxTimeout)
CreateTimeout(attempt, rnd) ==
    Min(RoundThousandths((1000 + rnd) * Max(minTimeout, 1) * Pow(factor, attempt)), maxTimeout)

Count(s, v) == Cardinality({i \in 1..Len(s) : s[i] = v})

\* timeouts.sort((a, b) => a - b)
SortAscending(s) ==
    CHOOSE t \in [1..Len(s) -> {s[i] : i \in 1..Len(s)}] :
        /\ \A i \in 1..(Len(s) - 1) : t[i] <= t[i + 1]
        /\ \A i \in 1..Len(s) : Count(t, s[i]) = Count(s, s[i])

\* variants: one timeout more, one timeout less than options.retries
TimeoutsOneMore(rnds) ==
    SortAscending([k \in 1..(retries + 1) |-> CreateTimeout(k - 1, rnds[IF k > retries THEN retries ELSE k])])

TimeoutsOneLess(rnds) == SortAscending([k \in 1..(retries - 1) |-> CreateTimeout(k - 1, rnds[k])])

\* retry.timeouts(options), rnds[k] the random drawn for attempt k-1
Timeouts(rnds) == SortAscending([k \in 1..retries |-> CreateTimeout(k - 1, rnds[k])])

\* RetryOperation.mainError(): the error whose message occurs most often, the latest on a tie
RECURSIVE MainErrorFrom(_, _, _, _)
MainErrorFrom(errors, i, best, bestCount) ==
    IF i > Len(errors) THEN best
    ELSE LET c == Cardinality({j \in 1..i : errors[j].message = errors[i].message})
         IN  IF c >= bestCount THEN MainErrorFrom(errors, i + 1, errors[i], c)
             ELSE MainErrorFrom(errors, i + 1, best, bestCount)

LastError(errors) == errors[Len(errors)]

MainError(errors) == MainErrorFrom(errors, 1, NoError, 0)

\* p-retry's isNetworkError(message)
NetworkErrorMessages ==
    { <<"f", "e", "t", "c", "h", " ", "f", "a", "i", "l", "e", "d">>,
      <<"N", "e", "t", "w", "o", "r", "k", " ", "r", "e", "q", "u", "e", "s", "t", " ", "f", "a", "i", "l", "e", "d">> }

isNetworkError(message) == message \in NetworkErrorMessages


(***************************************************************************)
(* The state of one osFetch call (one pRetry operation).                   *)
(*   fstate   Idle, Attempting (a request is in flight), Backoff (the      *)
(*            retry timer is pending), Succeeded, FailedTerminal,          *)
(*            FailedExhausted                                              *)
(*   attempts number of requests issued (operation._attempts)             *)
(*   timeouts timeouts not yet used (operation._timeouts)                  *)
(*   errors   errors passed to operation.retry (operation._errors)         *)
(*   resps    the responses received, in order                             *)
(*   delays   the delays waited before attempts 2, 3, ...                  *)
(*   value    what the promise resolved with                               *)
(*   error    what the promise rejected with                               *)
(*   log      the lines written by onFailedAttempt                         *)
(***************************************************************************)
NoValue == [data |-> NoData, rateLimit |-> NoHeaders]

FetchIdle ==
    [fstate |-> "Idle", attempts |-> 0, timeouts |-> <<>>, errors |-> <<>>,
     resps |-> <<>>, delays |-> <<>>, value |-> NoValue, error |-> NoError, log |-> <<>>]

FetchEnded(f) == f.fstate \in {"Succeeded", "FailedTerminal", "FailedExhausted"}

\* pRetry(input, options): retry.operation(options), then operation.attempt calls input(1)
StartFetch(rnds) ==
    [FetchIdle EXCEPT !.fstate = "Attempting", !.attempts = 1, !.timeouts = Timeouts(rnds)]

\* decorateErrorWithCounts(error, attemptNumber, options)
Decorate(e, attemptNumber) ==
    [cls |-> e.cls, message |-> e.message,
     attemptNumber |-> attemptNumber, retriesLeft |-> retries - (attemptNumber - 1)]

\* onFailedAttempt: console.error(...)
LogLine(e) == [attempt |-> e.attemptNumber, left |-> e.retriesLeft, message |-> e.message]

\* variant: the last error is surfaced instead of operation.mainError()
OperationRetryLast(f, e) ==
    LET errs == Append(f.errors, e)
    IN  IF f.timeouts = <<>>
        THEN [f EXCEPT !.errors = errs, !.fstate = "FailedExhausted", !.error = LastError(errs)]
        ELSE [f EXCEPT !.errors = errs, !.fstate = "Backoff",
                       !.delays = Append(f.delays, Head(f.timeouts)),
                       !.timeouts = Tail(f.timeouts)]

\* variant: the next attempt is started at once, without the timer
OperationRetryAtOnce(f, e) ==
    LET errs == Append(f.errors, e)
    IN  IF f.timeouts = <<>>
        THEN [f EXCEPT !.errors = errs, !.fstate = "FailedExhausted", !.error = MainError(errs)]
        ELSE [f EXCEPT !.errors = errs, !.fstate = "Attempting", !.attempts = @ + 1,
                       !.delays = Append(f.delays, Head(f.timeouts)),
                       !.timeouts = Tail(f.timeouts)]

\* operation.retry(err), and reject(operation.mainError()) when it returns false
OperationRetry(f, e) ==
    LET errs == Append(f.errors, e)
    IN  IF f.timeouts = <<>>
        THEN [f EXCEPT !.errors = errs, !.fstate = "FailedExhausted", !.error = MainError(errs)]
        ELSE [f EXCEPT !.errors = errs, !.fstate = "Backoff",
                       !.delays = Append(f.delays, Head(f.timeouts)),
                       !.timeouts = Tail(f.timeouts)]

\* variant: an AbortError stops the operation and the promise is never settled
PRetryCatchNeverSettles(f, e) ==
    IF ~IsErrorInstance(e)
    THEN [f EXCEPT !.fstate = "FailedTerminal", !.error = NewError("TypeError", <<>>)]
    ELSE IF e.cls = "AbortError"
    THEN [f EXCEPT !.fstate = "Stopped"]
    ELSE IF e.cls = "TypeError" /\ ~isNetworkError(e.message)
    THEN [f EXCEPT !.fstate = "FailedTerminal", !.error = e]
    ELSE LET d == Decorate(e, f.attempts)
         IN  OperationRetry([f EXCEPT !.log = Append(f.log, LogLine(d))], d)

\* the catch block of p-retry's operation.attempt callback
PRetryCatch(f, e) ==
    IF ~IsErrorInstance(e)
    THEN [f EXCEPT !.fstate = "FailedTerminal", !.error = NewError("TypeError", <<>>)]
    ELSE IF e.cls = "AbortError"
    THEN [f EXCEPT !.fstate = "FailedTerminal", !.error = e.originalError]
    ELSE IF e.cls = "TypeError" /\ ~isNetworkError(e.message)
    THEN [f EXCEPT !.fstate = "FailedTerminal", !.error = e]
    ELSE LET d == Decorate(e, f.attempts)
         IN  OperationRetry([f EXCEPT !.log = Append(f.log, LogLine(d))], d)

\* the request in flight completes with resp: resolve(await input(attemptNumber)) or the catch
OnResponse(f, resp) ==
    LET g == [f EXCEPT !.resps = Append(f.resps, resp)]
        out == Attempt(resp)
    IN  IF out.ret = "return"
        THEN [g EXCEPT !.fstate = "Succeeded", !.value = out.value]
        ELSE PRetryCatch(g, out.error)

\* the retry timer fires: operation._attempts++, input(attemptNumber) issues the next request
OnTimer(f) == [f EXCEPT !.fstate = "Attempting", !.attempts = f.attempts + 1]


(***************************************************************************)
(* The plugin registry (onchain-actions-plugins/nft) and the plugins.      *)
(***************************************************************************)
PluginIds == {"opensea", "magic-eden"}
NoPlugin == "undefined"

\* plugin objects a caller can register: the two of this repository and a
\* stand-in registered as 'opensea' whose reads return an empty sequence
OpenSeaPlugin == [id |-> "opensea", impl |-> "OpenSeaPlugin"]
MagicEdenPlugin == [id |-> "magic-eden", impl |-> "MagicEdenPlugin"]
EmptyPlugin == [id |-> "opensea", impl |-> "EmptyPlugin"]
Plugins == {OpenSeaPlugin, MagicEdenPlugin, EmptyPlugin}

\* const registry = new Map<string, NftPlugin>()
EmptyRegistry == [id \in PluginIds |-> NoPlugin]

\* variant: an id that is taken keeps its implementation
registerNftPluginKeepFirst(reg, plugin) ==
    IF reg[plugin.id] = NoPlugin THEN [reg EXCEPT ![plugin.id] = plugin.impl] ELSE reg

\* registry.set(plugin.id, plugin)
registerNftPlugin(reg, plugin) == [reg EXCEPT ![plugin.id] = plugin.impl]

\* variant: an id that is not registered resolves to a stand-in
getNftPluginOrStandIn(reg, id) == IF reg[id] = NoPlugin THEN "EmptyPlugin" ELSE reg[id]

\* registry.get(id)
getNftPlugin(reg, id) == reg[id]

\* whether a read of the plugin performs a marketplace call
PluginUsesNetwork(impl) == impl = "OpenSeaPlugin"

\* osFetch of the OpenSea plugin: one fetch, no retry
PluginOsFetch(resp) ==
    CASE resp.kind = "throw" -> Throw(resp.err)
      [] resp.kind = "status" -> Throw(NewError("Error", ApiErrorMessage(resp.status, resp.body)))
      [] resp.kind = "badjson" -> Throw(resp.err)
      [] resp.kind = "ok" -> Return(resp.data)

\* OpenSeaPlugin.getListings / getOffers: return res?.orders ?? []
PluginGetOrders(resp) ==
    LET r == PluginOsFetch(resp)
    IN  IF r.ret = "throw" THEN r
        ELSE Return([r.value EXCEPT !.orders = IF @ = "absent" THEN "empty" ELSE @])

\* MagicEdenPlugin.getListings / getOffers (and the stand-in): return []
EmptyOrders == Return([id |-> "none", orders |-> "empty"])

(***************************************************************************)
(* Tool invocations of the read server.                                    *)
(***************************************************************************)
AssetTools == {"get_listings_by_asset", "get_offers_by_asset"}
SingleQueryTools ==
    {"get_wallet_nfts", "get_collection", "list_arbitrum_collections", "get_listings_by_collection"}

\* raw arguments of the asset tools, by the shape of each field
RawInputs ==
    [contract : {"valid", "malformed"}, token : {"valid"},
     slug : {"absent", "valid", "blank"}, fallback : {"absent", "true"}]

NoRaw == [contract |-> "absent", token |-> "absent", slug |-> "absent", fallback |-> "absent"]

\* variant: a failed parse keeps the slug and the fallback flag that were valid
ParseAssetArgsKeepOptions(raw) ==
    LET success == raw.contract = "valid" /\ raw.token = "valid" /\ raw.slug # "blank"
    IN  [success |-> success,
         contract_address |-> IF success THEN "given" ELSE "default",
         token_id |-> IF success THEN "given" ELSE "default",
         collection_slug |-> raw.slug = "valid",
         fallback_to_collection |-> raw.fallback = "true"]

\* GetAssetListingsSchemaRaw.safeParse(unparsed) and the defaults taken when it fails
ParseAssetArgs(raw) ==
    LET success == raw.contract = "valid" /\ raw.token = "valid" /\ raw.slug # "blank"
    IN  [success |-> success,
         contract_address |-> IF success THEN "given" ELSE "default",
         token_id |-> IF success THEN "given" ELSE "default",
         collection_slug |-> success /\ raw.slug = "valid",
         fallback_to_collection |-> success /\ raw.fallback = "true"]

NoArgs == ParseAssetArgs(NoRaw)

\* the JSON text a handler returns, or the error it throws
NoOutput ==
    [kind |-> "none", keys |-> {}, data |-> NoData, rateLimit |-> NoHeaders,
     fallback |-> Null, error |-> NoError]

FallbackTag(tool) ==
    IF tool = "get_listings_by_asset" THEN "collection_listings" ELSE "collection_offers"

\* JSON.stringify({ rateLimit, nextCursor, data })
FetchOutput(v) ==
    [NoOutput EXCEPT !.kind = "result", !.keys = {"rateLimit", "nextCursor", "data"},
                     !.data = v.data, !.rateLimit = v.rateLimit]

\* get_collection: JSON.stringify({ rateLimit, data })
CollectionOutput(v) ==
    [NoOutput EXCEPT !.kind = "result", !.keys = {"rateLimit", "data"},
                     !.data = v.data, !.rateLimit = v.rateLimit]

\* variant: the collection result is returned without the fallback tag
FallbackOutputUntagged(v, tool) == FetchOutput(v)

\* JSON.stringify({ rateLimit, nextCursor, data, fallback })
FallbackOutput(v, tool) ==
    [NoOutput EXCEPT !.kind = "result", !.keys = {"rateLimit", "nextCursor", "data", "fallback"},
                     !.data = v.data, !.rateLimit = v.rateLimit, !.fallback = FallbackTag(tool)]

\* JSON.stringify({ data: { orders } })
PluginOutput(orders) ==
    [NoOutput EXCEPT !.kind = "result", !.keys = {"data"}, !.data = orders]

ThrownOutput(e) == [NoOutput EXCEPT !.kind = "throw", !.error = e]

(***************************************************************************)
(* One invocation.                                                         *)
(*   pc       idle, import (awaiting the dynamic import), plugin (awaiting *)
(*            the plugin read), fetch (awaiting osFetch), done, thrown     *)
(*   chain    which osFetch call is awaited: single, pluginCol, asset,     *)
(*            assetCol                                                     *)
(*   plugin   the implementation resolved by getNftPlugin('opensea')       *)
(*   pluginCall  the plugin read: requests issued, response, outcome       *)
(*   requests marketplace requests issued by the invocation                *)
(***************************************************************************)
NoPluginCall == [requests |-> 0, resp |-> ThrowResp(NoError), outcome |-> "none", orders |-> NoData]

\* the plugin operation called by the get-asset tool of the plugin skill
NoSkillCall ==
    [op |-> "none", requests |-> 0, outcome |-> "none",
     params |-> [contractAddress |-> StringValue(<<>>), tokenId |-> StringValue(<<>>)],
     asset |-> [contractAddress |-> StringValue(<<>>), tokenId |-> StringValue(<<>>),
                tokenStandard |-> "none", chainId |-> 0]]

IdleInvocation ==
    [pc |-> "idle", tool |-> "none", raw |-> NoRaw, args |-> NoArgs, plugin |-> NoPlugin,
     chain |-> "none", chains |-> <<>>, f |-> FetchIdle, pluginCall |-> NoPluginCall,
     requests |-> 0, output |-> NoOutput, pluginId |-> "none", skillCall |-> NoSkillCall]

BeginFetch(r, chain, rnds) ==
    [r EXCEPT !.pc = "fetch", !.chain = chain, !.chains = Append(@, chain),
              !.f = StartFetch(rnds), !.requests = @ + 1]

Finish(r, out) == [r EXCEPT !.pc = "done", !.output = out]

FailWith(r, e) == [r EXCEPT !.pc = "thrown", !.output = ThrownOutput(e)]

\* variant: the fallback does not ask for a collection slug
WantsCollectionFallbackAnySlug(r, orders) ==
    orders = "empty" /\ r.args.fallback_to_collection

\* orders.length === 0 && fallback_to_collection && collection_slug
WantsCollectionFallback(r, orders) ==
    orders = "empty" /\ r.args.fallback_to_collection /\ r.args.collection_slug

\* the handler up to its first await
InvokeTool(r, tool, raw, rnds) ==
    IF tool \in AssetTools
    THEN [r EXCEPT !.pc = "import", !.tool = tool, !.raw = raw, !.args = ParseAssetArgs(raw)]
    ELSE BeginFetch([r EXCEPT !.tool = tool], "single", rnds)

\* after await import(...): getNftPlugin('opensea') and the call of the plugin read
AfterImport(r, reg, importOk, rnds) ==
    LET plugin == getNftPlugin(reg, "opensea")
    IN  IF ~importOk \/ plugin = NoPlugin
        THEN BeginFetch(r, "asset", rnds)
        ELSE [r EXCEPT !.pc = "plugin", !.plugin = plugin,
                       !.pluginCall.requests = IF PluginUsesNetwork(plugin) THEN 1 ELSE 0,
                       !.requests = IF PluginUsesNetwork(plugin) THEN @ + 1 ELSE @]

\* variant: no catch around the plugin-backed path
AfterPluginRethrow(r, resp, rnds) ==
    LET res == IF PluginUsesNetwork(r.plugin) THEN PluginGetOrders(resp) ELSE EmptyOrders
        r1 == [r EXCEPT !.pluginCall.resp = resp,
                        !.pluginCall.outcome = IF res.ret = "throw" THEN "threw" ELSE "returned"]
    IN  IF res.ret = "throw"
        THEN FailWith(r1, res.error)
        ELSE LET r2 == [r1 EXCEPT !.pluginCall.orders = res.value]
             IN  IF WantsCollectionFallback(r2, res.value.orders)
                 THEN BeginFetch(r2, "pluginCol", rnds)
                 ELSE Finish(r2, PluginOutput(res.value))

\* variant: the read is answered by the implementation registered when it settles
AfterPluginLateLookup(r, resp, rnds) ==
    LET late == getNftPlugin(registry, "opensea")
        res == IF PluginUsesNetwork(late) THEN PluginGetOrders(resp) ELSE EmptyOrders
        r1 == [r EXCEPT !.pluginCall.resp = resp,
                        !.pluginCall.outcome = IF res.ret = "throw" THEN "threw" ELSE "returned"]
    IN  IF res.ret = "throw"
        THEN BeginFetch(r1, "asset", rnds)
        ELSE LET r2 == [r1 EXCEPT !.pluginCall.orders = res.value]
             IN  IF WantsCollectionFallback(r2, res.value.orders)
                 THEN BeginFetch(r2, "pluginCol", rnds)
                 ELSE Finish(r2, PluginOutput(res.value))

\* the plugin read settles: res is Return(orders) or Throw(error)
AfterPlugin(r, resp, rnds) ==
    LET res == IF PluginUsesNetwork(r.plugin) THEN PluginGetOrders(resp) ELSE EmptyOrders
        r1 == [r EXCEPT !.pluginCall.resp = resp,
                        !.pluginCall.outcome = IF res.ret = "throw" THEN "threw" ELSE "returned"]
    IN  IF res.ret = "throw"
        THEN BeginFetch(r1, "asset", rnds)
        ELSE LET r2 == [r1 EXCEPT !.pluginCall.orders = res.value]
             IN  IF WantsCollectionFallback(r2, res.value.orders)
                 THEN BeginFetch(r2, "pluginCol", rnds)
                 ELSE Finish(r2, PluginOutput(res.value))

\* variant: a failed fallback query of the plugin-backed path is thrown to the caller
AfterFetchFallbackThrows(r, rnds) ==
    LET ok == r.f.fstate = "Succeeded"
    IN  CASE r.chain = "single" ->
                IF ~ok THEN FailWith(r, r.f.error)
                ELSE IF r.tool = "get_collection" THEN Finish(r, CollectionOutput(r.f.value))
                ELSE Finish(r, FetchOutput(r.f.value))
          [] r.chain = "pluginCol" ->
                IF ok THEN Finish(r, FallbackOutput(r.f.value, r.tool))
                ELSE FailWith(r, r.f.error)
          [] r.chain = "asset" ->
                IF ~ok THEN FailWith(r, r.f.error)
                ELSE IF WantsCollectionFallback(r, r.f.value.data.orders)
                THEN BeginFetch(r, "assetCol", rnds)
                ELSE Finish(r, FetchOutput(r.f.value))
          [] r.chain = "assetCol" ->
                IF ok THEN Finish(r, FallbackOutput(r.f.value, r.tool))
                ELSE FailWith(r, r.f.error)

\* the awaited osFetch settles
AfterFetch(r, rnds) ==
    LET ok == r.f.fstate = "Succeeded"
    IN  CASE r.chain = "single" ->
                IF ~ok THEN FailWith(r, r.f.error)
                ELSE IF r.tool = "get_collection" THEN Finish(r, CollectionOutput(r.f.value))
                ELSE Finish(r, FetchOutput(r.f.value))
          [] r.chain = "pluginCol" ->
                IF ok THEN Finish(r, FallbackOutput(r.f.value, r.tool))
                ELSE BeginFetch(r, "asset", rnds)
          [] r.chain = "asset" ->
                IF ~ok THEN FailWith(r, r.f.error)
                ELSE IF WantsCollectionFallback(r, r.f.value.data.orders)
                THEN BeginFetch(r, "assetCol", rnds)
                ELSE Finish(r, FetchOutput(r.f.value))
          [] r.chain = "assetCol" ->
                IF ok THEN Finish(r, FallbackOutput(r.f.value, r.tool))
                ELSE FailWith(r, r.f.error)


(***************************************************************************)
(* The get-asset tool of the plugin skill.  pc skill: awaiting             *)
(* plugin.getAsset.                                                        *)
(***************************************************************************)
IdText(id) ==
    IF id = "opensea" THEN <<"o", "p", "e", "n", "s", "e", "a">>
    ELSE <<"m", "a", "g", "i", "c", "-", "e", "d", "e", "n">>

\* `NFT plugin not registered: ${args.plugin}`
NotRegisteredMessage(id) ==
    <<"N", "F", "T", " ", "p", "l", "u", "g", "i", "n", " ", "n", "o", "t", " ", "r", "e", "g", "i", "s", "t", "e", "r", "e", "d", ":", " ">> \o IdText(id)

\* createSuccessTask('nft', undefined, JSON.stringify(asset))
TaskOutput == [NoOutput EXCEPT !.kind = "task", !.keys = {"contractAddress", "tokenId", "tokenStandard", "chainId"}]

\* arguments GetAssetParams accepts: plugin out of the enum, contractAddress
\* any string, tokenId a string or a number (chainId is left at its default)
SkillInputs ==
    [plugin : PluginIds,
     contractAddress :
        { StringValue(<<"0", "x">> \o HexLower), StringValue(<<"0", "x">> \o HexMixed),
          StringValue(<<" ", "0", "X">> \o HexUpper), StringValue(<<"n", "o", "p", "e">>) },
     tokenId : {StringValue(<<"1", "3">>), NumberValue(<<"1", "3">>)}]

\* the object getAsset returns: contractAddress: params.contractAddress,
\* tokenId: String(params.tokenId), chainId: params.chainId
GetAssetResult(params, data) ==
    [contractAddress |-> params.contractAddress, tokenId |-> ToStringValue(params.tokenId),
     tokenStandard |-> "ERC721", chainId |-> ArbitrumChainId]

\* getAssetTool.execute up to its await
ExecuteGetAsset(r, reg, args) ==
    LET plugin == getNftPlugin(reg, args.plugin)
        r1 == [r EXCEPT !.tool = "get-asset", !.pluginId = args.plugin]
    IN  IF plugin = NoPlugin
        THEN FailWith(r1, NewError("Error", NotRegisteredMessage(args.plugin)))
        ELSE [r1 EXCEPT !.pc = "skill", !.plugin = plugin,
                        !.skillCall = [NoSkillCall EXCEPT
                                          !.op = "getAsset",
                                          !.requests = IF PluginUsesNetwork(plugin) THEN 1 ELSE 0,
                                          !.outcome = "pending",
                                          !.params = [contractAddress |-> args.contractAddress,
                                                      tokenId |-> ToStringValue(args.tokenId)]],
                        !.requests = IF PluginUsesNetwork(plugin) THEN @ + 1 ELSE @]

\* plugin.getAsset settles
AfterGetAsset(r, resp) ==
    LET res == IF PluginUsesNetwork(r.plugin) THEN PluginOsFetch(resp) ELSE Return(NoData)
    IN  IF res.ret = "throw"
        THEN FailWith([r EXCEPT !.skillCall.outcome = "threw"], res.error)
        ELSE Finish([r EXCEPT !.skillCall.outcome = "returned",
                              !.skillCall.asset = GetAssetResult(r.skillCall.params, res.value)],
                    TaskOutput)

(***************************************************************************)
(* What the environment can answer.                                        *)
(***************************************************************************)
TerminalStatuses == {304, 404}
RetryableStatuses == {429, 500, 503}

\* answers to a request of osFetch called on its own
FetchResponses ==
    {StatusResp(st, b) : st \in TerminalStatuses, b \in AllBodies}
      \cup {StatusResp(st, BodyEmpty) : st \in RetryableStatuses \ {429}}
      \cup {LimitedResp(429, BodyEmpty, ExhaustedHeaders)}
      \cup {StatusResp(500, BodyPlain)}
      \cup {OkResp(d, h) : d \in Payloads, h \in HeaderSets}
      \cup {BadJsonResp(JsonPlain), BadJsonResp(JsonRate), ThrowResp(FetchFailed)}

\* answers to a request issued inside the asset tools
ToolResponses ==
    {StatusResp(404, BodyEmpty), StatusResp(500, BodyEmpty)}
      \cup {OkResp(d, NoHeaders) : d \in Payloads}
      \cup {ThrowResp(FetchFailed)}

\* the values Math.random() takes: NumJitter of them between 0 and 0.999
Randoms == [1..retries -> {(999 * k) \div (NumJitter - 1) : k \in 0..(NumJitter - 1)}]
ToolRandoms == [1..retries -> {0}]

Invocations == {1}

\* no function applied yet
NoCalc == [fn |-> "none", input |-> NoError, output |-> FALSE, done |-> FALSE]

(***************************************************************************)
(* The write server (opensea-actions-mcp-server).                          *)
(*   enabled  ENABLE_WRITE_ACTIONS, read from the environment at load      *)
(*   calls    number of write tool calls handled                           *)
(*   trace    the calls made by the handler of the last write tool call    *)
(***************************************************************************)
WriteTools ==
    {"approve_token", "list_nft", "buy_nft", "make_offer", "cancel_offer",
     "transfer_nft", "wrap_weth", "unwrap_weth", "bulk_cancel"}

\* tools whose schema requires a price or an amount, passed to parseEther
PricedTools == {"list_nft", "make_offer", "wrap_weth", "unwrap_weth"}

\* tools with an optional argument that is echoed as it is (token_id of
\* make_offer and cancel_offer, from_address of transfer_nft)
EchoOptionalTools == {"make_offer", "cancel_offer", "transfer_nft"}

MaxOrders == 2
MaxWriteCalls == 2

\* arguments that passed the schema of the tool, by shape:
\*   amount    price / amount / max_price: absent, a decimal number ("ether"),
\*             or a string that is not a decimal number ("garbage")
\*   optional  whether the optional arguments are supplied
\*   count     order_ids.length
NoWriteArgs == [amount |-> "absent", optional |-> FALSE, count |-> 0]

WriteArgs(tool) ==
    [amount : IF tool \in PricedTools THEN {"ether", "garbage"}
              ELSE IF tool = "buy_nft" THEN {"absent", "ether", "garbage"}
              ELSE {"absent"},
     optional : BOOLEAN,
     count : IF tool = "bulk_cancel" THEN 0..MaxOrders ELSE {0}]

\* the JSON text a write handler returns, by its members
NoEnvelope ==
    [error |-> "absent", message |-> "absent", keys |-> {}, executed |-> "absent",
     preparedTransaction |-> "absent", details |-> "absent"]

\* JSON.stringify({ error: 'Write actions disabled', message, preparedTransaction })
DisabledEnvelope ==
    [NoEnvelope EXCEPT !.error = "Write actions disabled",
                       !.message = "Set ENABLE_OPENSEA_WRITE=true to enable execution",
                       !.keys = {"error", "message", "preparedTransaction"},
                       !.preparedTransaction = "Transaction prepared but not executed (non-custodial mode)"]

FailedText(tool) ==
    CASE tool = "approve_token" -> "Failed to prepare token approval"
      [] tool = "list_nft" -> "Failed to prepare NFT listing"
      [] tool = "buy_nft" -> "Failed to prepare NFT purchase"
      [] tool = "make_offer" -> "Failed to prepare offer"
      [] tool = "cancel_offer" -> "Failed to prepare offer cancellation"
      [] tool = "transfer_nft" -> "Failed to prepare NFT transfer"
      [] tool = "wrap_weth" -> "Failed to prepare WETH wrap"
      [] tool = "unwrap_weth" -> "Failed to prepare WETH unwrap"
      [] tool = "bulk_cancel" -> "Failed to prepare bulk cancellation"

\* the catch of a handler: JSON.stringify({ error, details })
FailedEnvelope(tool, e) ==
    [NoEnvelope EXCEPT !.error = FailedText(tool), !.keys = {"error", "details"},
                       !.details = e.message]

SuccessText(tool) ==
    CASE tool = "approve_token" -> "Token approval prepared successfully"
      [] tool = "list_nft" -> "NFT listing prepared successfully"
      [] tool = "buy_nft" -> "NFT purchase prepared successfully"
      [] tool = "make_offer" -> "Offer prepared successfully"
      [] tool = "cancel_offer" -> "Offer cancellation prepared successfully"
      [] tool = "transfer_nft" -> "NFT transfer prepared successfully"
      [] tool = "wrap_weth" -> "WETH wrap prepared successfully"
      [] tool = "unwrap_weth" -> "WETH unwrap prepared successfully"
      [] tool = "bulk_cancel" -> "Bulk cancellation prepared successfully"

\* viem parseEther: a bigint for a decimal number, InvalidDecimalNumberError otherwise
parseEther(text) ==
    IF text = "ether" THEN Return("bigint")
    ELSE Throw(NewError("Error", "is not a valid decimal number"))

\* the prepared object of a handler: to, data and chainId are fixed text and
\* arbitrum.id; value is '0', except in buy_nft with max_price and in wrap_weth
PreparedObject(tool, wei) ==
    [to |-> "string", data |-> "string",
     value |-> IF tool \in {"buy_nft", "wrap_weth"} /\ wei = "bigint" THEN "bigint" ELSE "string",
     chainId |-> ArbitrumChainId]

\* the echoed members of the object a handler serializes, each by the type of its value
EchoedFields(tool, args, wei) ==
    LET opt == IF args.optional THEN "string" ELSE "undefined"
    IN  CASE tool = "approve_token" ->
                [contractAddress |-> "string", approvedOperator |-> "string", tokenType |-> "string"]
          [] tool = "list_nft" ->
                [contractAddress |-> "string", tokenId |-> "string", price |-> "string",
                 priceInWei |-> wei, duration |-> "string", currency |-> "string"]
          [] tool = "buy_nft" ->
                [contractAddress |-> "string", tokenId |-> "string", maxPrice |-> "string",
                 currency |-> "string"]
          [] tool = "make_offer" ->
                [contractAddress |-> "string", tokenId |-> opt, price |-> "string",
                 priceInWei |-> wei, duration |-> "string", offerType |-> "string",
                 currency |-> "string"]
          [] tool = "cancel_offer" ->
                [contractAddress |-> "string", tokenId |-> opt, offerId |-> "string"]
          [] tool = "transfer_nft" ->
                [contractAddress |-> "string", tokenId |-> "string", toAddress |-> "string",
                 fromAddress |-> opt]
          [] tool = "wrap_weth" ->
                [amount |-> "string", amountInWei |-> wei, wethContract |-> "string"]
          [] tool = "unwrap_weth" ->
                [amount |-> "string", amountInWei |-> wei, wethContract |-> "string"]
          [] tool = "bulk_cancel" ->
                [orderIds |-> "array", orderType |-> "string", count |-> "number"]

\* variant: the response reports the transaction as executed
SuccessPayloadExecuted(tool, args, wei) ==
    [message |-> SuccessText(tool), echoed |-> EchoedFields(tool, args, wei),
     preparedTransaction |-> PreparedObject(tool, wei), executed |-> "true"]

\* the object literal handed to JSON.stringify on the success path
SuccessPayload(tool, args, wei) ==
    [message |-> SuccessText(tool), echoed |-> EchoedFields(tool, args, wei),
     preparedTransaction |-> PreparedObject(tool, wei), executed |-> "false"]

\* JSON.stringify(payload, null, 2): a member whose value is undefined is
\* left out; a BigInt anywhere in the object makes it throw a TypeError
JSONStringify(payload) ==
    LET e == payload.echoed
    IN  IF (\E k \in DOMAIN e : e[k] = "bigint") \/ payload.preparedTransaction.value = "bigint"
        THEN Throw(NewError("TypeError", "Do not know how to serialize a BigInt"))
        ELSE Return([NoEnvelope EXCEPT
                        !.message = payload.message,
                        !.keys = {k \in DOMAIN e : e[k] # "undefined"}
                                    \cup {"message", "preparedTransaction", "executed", "note"},
                        !.executed = payload.executed,
                        !.preparedTransaction = "object"])

\* what one call of a handler did: the output and the calls made on the way
WriteResult(output, trace) == [output |-> output, trace |-> trace]

\* the try/catch of a handler
PrepareWrite(tool, args) ==
    LET parses == tool \in PricedTools \/ (tool = "buy_nft" /\ args.amount # "absent")
        wei == IF parses THEN parseEther(args.amount) ELSE Return("none")
        t1 == IF parses THEN <<"parseEther">> ELSE <<>>
    IN  IF wei.ret = "throw"
        THEN WriteResult(FailedEnvelope(tool, wei.error), t1 \o <<"JSON.stringify">>)
        ELSE LET text == JSONStringify(SuccessPayload(tool, args, wei.value))
                 t2 == t1 \o <<"prepare", "JSON.stringify">>
             IN  IF text.ret = "throw"
                 THEN WriteResult(FailedEnvelope(tool, text.error), t2 \o <<"JSON.stringify">>)
                 ELSE WriteResult(text.value, t2)

\* variant: the gate is not consulted
WriteHandlerUngated(enabled, tool, args) == PrepareWrite(tool, args)

\* a write tool handler
WriteHandler(enabled, tool, args) ==
    IF ~enabled
    THEN WriteResult(DisabledEnvelope, <<"JSON.stringify">>)
    ELSE PrepareWrite(tool, args)

IdleWrite(enabled) ==
    [enabled |-> enabled, calls |-> 0, tool |-> "none", args |-> NoWriteArgs,
     output |-> NoEnvelope, trace |-> <<>>]

\* ENABLE_WRITE_ACTIONS is read from the environment when the module loads
WriteInit ==
    /\ inv = [i \in Invocations |-> IdleInvocation]
    /\ registry = EmptyRegistry
    /\ regLog = <<>>
    /\ wr \in {IdleWrite(enabled) : enabled \in BOOLEAN}
    /\ calc = NoCalc

CallWriteTool(tool, args) ==
    /\ wr.calls < MaxWriteCalls
    /\ LET res == WriteHandler(wr.enabled, tool, args)
       IN  wr' = [wr EXCEPT !.calls = @ + 1, !.tool = tool, !.args = args,
                            !.output = res.output, !.trace = res.trace]
    /\ UNCHANGED <<inv, registry, regLog, calc>>

WriteNext == \E tool \in WriteTools : \E args \in WriteArgs(tool) : CallWriteTool(tool, args)

WriteSpec == WriteInit /\ [][WriteNext]_vars

(***************************************************************************)
(* isRateLimitOrTransient applied to a thrown value.                       *)
(***************************************************************************)
\* messages of what fetch and res.json() throw: undici rejects every
\* network-level failure (connection reset, connect timeout) with 'fetch failed'
\* and keeps the reason in error.cause
ThrownMessages ==
    { FetchFailed.message, JsonPlain.message, JsonRate.message,
      <<"r", "e", "a", "d", " ", "E", "C", "O", "N", "N", "R", "E", "S", "E", "T">>,
      <<"C", "o", "n", "n", "e", "c", "t", " ", "T", "i", "m", "e", "o", "u", "t", " ", "E", "r", "r", "o", "r">>,
      <<"N", "e", "t", "w", "o", "r", "k", " ", "r", "e", "q", "u", "e", "s", "t", " ", "f", "a", "i", "l", "e", "d">>,
      <<"s", "o", "c", "k", "e", "t", " ", "h", "a", "n", "g", " ", "u", "p">> }

\* thrown values: Error instances, and a thrown string (not an Error); their
\* messages are the ones of failed requests, by the status they quote, and the
\* ones fetch and res.json() throw
ThrownValues ==
    {NewError(c, m) :
        c \in {"Error", "TypeError", "string"},
        m \in {ApiErrorMessage(st, b) :
                    st \in {304, 400, 404, 429, 451, 500, 503, 599}, b \in AllBodies}
                \cup ThrownMessages}

ClassifyInit ==
    /\ inv = [i \in Invocations |-> IdleInvocation]
    /\ registry = EmptyRegistry
    /\ regLog = <<>>
    /\ wr = IdleWrite(FALSE)
    /\ calc \in {[NoCalc EXCEPT !.fn = "isRateLimitOrTransient", !.input = e] : e \in ThrownValues}

Classify ==
    /\ calc.fn = "isRateLimitOrTransient"
    /\ ~calc.done
    /\ calc' = [calc EXCEPT !.output = isRateLimitOrTransient(calc.input), !.done = TRUE]
    /\ UNCHANGED <<inv, registry, regLog, wr>>

ClassifySpec == ClassifyInit /\ [][Classify]_vars

(***************************************************************************)
(* EthAddressSchema applied to an input, and again to its own result.      *)
(***************************************************************************)
NoParse == ParseFailure("none")

NormalizeInit ==
    /\ inv = [i \in Invocations |-> IdleInvocation]
    /\ registry = EmptyRegistry
    /\ regLog = <<>>
    /\ wr = IdleWrite(FALSE)
    /\ calc \in {[fn |-> "EthAddressSchema", input |-> v, output |-> NoParse, done |-> FALSE,
                  again |-> NoParse, redone |-> FALSE] : v \in AddressInputs}

Normalize ==
    /\ calc.fn = "EthAddressSchema"
    /\ ~calc.done
    /\ calc' = [calc EXCEPT !.output = EthAddressSchema(calc.input), !.done = TRUE]
    /\ UNCHANGED <<inv, registry, regLog, wr>>

Renormalize ==
    /\ calc.fn = "EthAddressSchema"
    /\ calc.done /\ calc.output.success /\ ~calc.redone
    /\ calc' = [calc EXCEPT !.again = EthAddressSchema(StringValue(calc.output.data)),
                            !.redone = TRUE]
    /\ UNCHANGED <<inv, registry, regLog, wr>>

NormalizeNext == Normalize \/ Renormalize

NormalizeSpec == NormalizeInit /\ [][NormalizeNext]_vars

(***************************************************************************)
(* Actions.                                                                *)
(***************************************************************************)
\* variant: one retry operation is shared, a retryable failure of one
\* invocation takes a timeout from every other invocation as well
SettleShared(invs, i, resp) ==
    LET g == OnResponse(invs[i].f, resp)
    IN  [j \in DOMAIN invs |->
            IF j = i THEN [invs[j] EXCEPT !.f = g]
            ELSE IF g.fstate = "Backoff" /\ invs[j].f.timeouts # <<>>
            THEN [invs[j] EXCEPT !.f.timeouts = Tail(@)]
            ELSE invs[j]]

\* the promise of the attempt of invocation i settles: each call of osFetch
\* has its own pRetry operation, the other invocations are left as they are
Settle(invs, i, resp) == [invs EXCEPT ![i].f = OnResponse(invs[i].f, resp)]

\* registerNftPlugin(plugin)
Register(plugin) ==
    /\ registry' = registerNftPlugin(registry, plugin)
    /\ UNCHANGED <<inv, regLog, wr, calc>>

\* a single-query tool is called: the handler runs up to the first request of osFetch
InvokeSingle(i, tool, rnds) ==
    /\ inv[i].pc = "idle"
    /\ inv' = [inv EXCEPT ![i] = InvokeTool(inv[i], tool, NoRaw, rnds)]
    /\ UNCHANGED <<registry, regLog, wr, calc>>

\* get_listings_by_asset or get_offers_by_asset is called
InvokeAsset(i, tool, raw) ==
    /\ inv[i].pc = "idle"
    /\ inv' = [inv EXCEPT ![i] = InvokeTool(inv[i], tool, raw, [k \in 1..retries |-> 0])]
    /\ UNCHANGED <<registry, regLog, wr, calc>>

\* the dynamic import settles
Import(i, importOk, rnds) ==
    /\ inv[i].pc = "import"
    /\ inv' = [inv EXCEPT ![i] = AfterImport(inv[i], registry, importOk, rnds)]
    /\ UNCHANGED <<registry, regLog, wr, calc>>

\* the get-asset tool of the plugin skill is called
InvokeGetAsset(i, args) ==
    /\ inv[i].pc = "idle"
    /\ inv' = [inv EXCEPT ![i] = ExecuteGetAsset(inv[i], registry, args)]
    /\ UNCHANGED <<registry, regLog, wr, calc>>

\* plugin.getAsset settles
SkillSettles(i, resp) ==
    /\ inv[i].pc = "skill"
    /\ inv' = [inv EXCEPT ![i] = AfterGetAsset(inv[i], resp)]
    /\ UNCHANGED <<registry, regLog, wr, calc>>

\* the plugin read settles
PluginSettles(i, resp, rnds) ==
    /\ inv[i].pc = "plugin"
    /\ inv' = [inv EXCEPT ![i] = AfterPlugin(inv[i], resp, rnds)]
    /\ UNCHANGED <<registry, regLog, wr, calc>>

\* the request of osFetch that is in flight is answered
Receive(i, resp) ==
    /\ inv[i].pc = "fetch"
    /\ inv[i].f.fstate = "Attempting"
    /\ inv' = Settle(inv, i, resp)
    /\ UNCHANGED <<registry, regLog, wr, calc>>

\* the backoff delay elapses and the next request is issued
Timer(i) ==
    /\ inv[i].pc = "fetch"
    /\ inv[i].f.fstate = "Backoff"
    /\ inv' = [inv EXCEPT ![i].f = OnTimer(inv[i].f), ![i].requests = @ + 1]
    /\ UNCHANGED <<registry, regLog, wr, calc>>

\* the handler resumes after the awaited osFetch
Resume(i, rnds) ==
    /\ inv[i].pc = "fetch"
    /\ FetchEnded(inv[i].f)
    /\ inv' = [inv EXCEPT ![i] = AfterFetch(inv[i], rnds)]
    /\ UNCHANGED <<registry, regLog, wr, calc>>

Init ==
    /\ inv = [i \in Invocations |-> IdleInvocation]
    /\ registry = EmptyRegistry
    /\ regLog = <<>>
    /\ wr = IdleWrite(FALSE)
    /\ calc = NoCalc

\* one call of a single-query tool, every answer of the marketplace
Next ==
    \E i \in Invocations :
        \/ \E rnds \in Randoms : InvokeSingle(i, "get_collection", rnds)
        \/ \E resp \in FetchResponses : Receive(i, resp)
        \/ Timer(i)
        \/ Resume(i, [k \in 1..retries |-> 0])

Spec == Init /\ [][Next]_vars

\* one call of any read tool, with registrations at any time
ToolNext ==
    \/ \E p \in Plugins : Register(p)
    \/ \E i \in Invocations :
        \/ \E tool \in SingleQueryTools, rnds \in ToolRandoms : InvokeSingle(i, tool, rnds)
        \/ \E tool \in AssetTools, raw \in RawInputs : InvokeAsset(i, tool, raw)
        \/ \E args \in SkillInputs : InvokeGetAsset(i, args)
        \/ \E resp \in ToolResponses : SkillSettles(i, resp)
        \/ \E importOk \in BOOLEAN, rnds \in ToolRandoms : Import(i, importOk, rnds)
        \/ \E resp \in ToolResponses, rnds \in ToolRandoms : PluginSettles(i, resp, rnds)
        \/ \E resp \in ToolResponses : Receive(i, resp)
        \/ Timer(i)
        \/ \E rnds \in ToolRandoms : Resume(i, rnds)

ToolSpec == Init /\ [][ToolNext]_vars

(***************************************************************************)
(* One call of osFetch under the assumption that every request is          *)
(* answered and every backoff timer fires.                                 *)
(***************************************************************************)
LiveResponses ==
    { StatusResp(404, BodyEmpty), StatusResp(500, BodyEmpty),
      LimitedResp(429, BodyEmpty, ExhaustedHeaders), StatusResp(503, BodyRate),
      OkResp([id |-> "A", orders |-> "some"], NoHeaders),
      BadJsonResp(JsonPlain), BadJsonResp(JsonRate), ThrowResp(FetchFailed) }

LiveNext ==
    \E i \in Invocations :
        \/ InvokeSingle(i, "get_collection", [k \in 1..retries |-> 0])
        \/ \E resp \in LiveResponses : Receive(i, resp)
        \/ Timer(i)
        \/ Resume(i, [k \in 1..retries |-> 0])

Fairness ==
    \A i \in Invocations :
        /\ WF_vars(\E resp \in LiveResponses : Receive(i, resp))
        /\ WF_vars(Timer(i))

LiveSpec == Init /\ [][LiveNext]_vars /\ Fairness

(***************************************************************************)
(* Two tool invocations in flight at the same time.                        *)
(***************************************************************************)
Pair == {1, 2}

PairInit ==
    /\ inv = [i \in Pair |-> IdleInvocation]
    /\ registry = EmptyRegistry
    /\ regLog = <<>>
    /\ wr = IdleWrite(FALSE)
    /\ calc = NoCalc

PairNext ==
    \E i \in Pair :
        \/ InvokeSingle(i, "get_collection", [k \in 1..retries |-> 0])
        \/ \E resp \in { StatusResp(404, BodyEmpty), StatusResp(500, BodyEmpty),
                         OkResp([id |-> "A", orders |-> "some"], NoHeaders) } :
                Receive(i, resp)
        \/ Timer(i)
        \/ Resume(i, [k \in 1..retries |-> 0])

PairSpec == PairInit /\ [][PairNext]_vars

(***************************************************************************)
(* The registry on its own: every registration is recorded in regLog.     *)
(***************************************************************************)
MaxRegistrations == 4

\* registerNftPlugin(plugin), the call recorded in regLog
RegisterLogged(plugin) ==
    /\ Len(regLog) < MaxRegistrations
    /\ registry' = registerNftPlugin(registry, plugin)
    /\ regLog' = Append(regLog, plugin)
    /\ UNCHANGED <<inv, wr, calc>>

RegistryNext == \E p \in Plugins : RegisterLogged(p)

RegistrySpec == Init /\ [][RegistryNext]_vars


(***************************************************************************)
(* Properties.                                                             *)
(***************************************************************************)
\* a response with status 429 or 5xx
IsTransientResp(x) == x.kind = "status" /\ (x.status = 429 \/ (x.status >= 500 /\ x.status <= 599))

\* a response with a non-success status that is neither 429 nor 5xx
IsTerminalResp(x) == x.kind = "status" /\ x.status # 429 /\ ~(x.status >= 500 /\ x.status <= 599)

AllTransient(resps, n) == \A j \in 1..n : IsTransientResp(resps[j])

StatusesOf(resps) == [j \in 1..Len(resps) |-> resps[j].status]

\* C1: one invocation of osFetch issues at most 5 HTTP requests, whatever the
\* responses and thrown failures are.
C1_AtMostFiveRequests ==
    \A i \in Invocations :
        /\ inv[i].f.attempts <= 5
        /\ Len(inv[i].f.resps) <= 5
        /\ Len(inv[i].f.delays) <= 4

C1_Witness ==
    \E i \in Invocations :
        /\ inv[i].f.attempts = 5
        /\ Len(inv[i].f.resps) = 5
        /\ FetchEnded(inv[i].f)

\* C2: when an attempt receives a non-success status that is neither 429 nor
\* 5xx, whatever the body text is, the invocation issues no further request,
\* has failed at once, and the error carries the status and the body text.
C2_TerminalStatusFailsAtOnce ==
    \A i \in Invocations :
        LET f == inv[i].f
        IN  \A k \in 1..Len(f.resps) :
                IsTerminalResp(f.resps[k]) =>
                    /\ k = Len(f.resps)
                    /\ f.attempts = k
                    /\ f.fstate = "FailedTerminal"
                    /\ HasSub(f.error.message, StatusText(f.resps[k].status) \o <<":", " ">> \o f.resps[k].body)
                    /\ Len(f.error.message) = Len(ApiErrorPrefix) + 5 + Len(f.resps[k].body)

C2_Witness ==
    \E i \in Invocations :
        LET f == inv[i].f
        IN  /\ Len(f.resps) = 2
            /\ IsTransientResp(f.resps[1])
            /\ f.resps[2] = StatusResp(404, BodyRate)
            /\ f.fstate = "FailedTerminal"

\* C3: if the first k-1 responses are each 429 or 5xx and the k-th is a
\* success whose body decodes (k in 1..5), the k-th request is issued, exactly
\* k requests are issued and the invocation returns the payload of the k-th
\* response.
C3_SuccessAfterTransients ==
    \A i \in Invocations :
        LET f == inv[i].f
            n == Len(f.resps)
        IN  /\ (n < 5 /\ AllTransient(f.resps, n) /\ f.fstate # "Idle")
                => f.fstate \in {"Attempting", "Backoff"}
            /\ (n >= 1 /\ AllTransient(f.resps, n - 1) /\ f.resps[n].kind = "ok")
                => /\ f.fstate = "Succeeded"
                   /\ f.attempts = n
                   /\ f.value.data = f.resps[n].data

C3_Witness ==
    \E i \in Invocations :
        /\ StatusesOf(inv[i].f.resps) = <<429, 429, 200>>
        /\ inv[i].f.resps[3].kind = "ok"
        /\ inv[i].f.fstate = "Succeeded"
        /\ inv[i].f.attempts = 3

\* C4: if every response is 429 or 5xx, exactly 5 requests are issued and the
\* invocation then fails; it never fails with a retryable error before the
\* fifth request has been answered.
C4_ExhaustsAfterFive ==
    \A i \in Invocations :
        LET f == inv[i].f
        IN  /\ (Len(f.resps) = 5 /\ AllTransient(f.resps, 5))
                => (f.fstate = "FailedExhausted" /\ f.attempts = 5)
            /\ f.fstate = "FailedExhausted" => (Len(f.resps) = 5 /\ f.attempts = 5)

C4_Witness ==
    \E i \in Invocations :
        /\ StatusesOf(inv[i].f.resps) = <<500, 500, 500, 500, 500>>
        /\ inv[i].f.fstate = "FailedExhausted"


\* how many of the errors passed to operation.retry carry the message m
TimesSeen(errors, m) == Cardinality({j \in 1..Len(errors) : errors[j].message = m})

\* C5 as stated: when osFetch exhausts its attempt budget, the error it fails
\* with is the error of the fifth attempt, also when the attempts failed with
\* different statuses or messages.
C5_FailsWithLastError ==
    \A i \in Invocations :
        LET f == inv[i].f
        IN  f.fstate = "FailedExhausted" => f.error = f.errors[Len(f.errors)]

\* C5 as amended: when osFetch exhausts its attempt budget, the error it
\* fails with is the error of one of the five attempts, the latest among the
\* attempts whose message occurred most often; it is the fifth attempt's
\* error when no other message occurred more often than the fifth's.
C5_FailsWithMostFrequentError ==
    \A i \in Invocations :
        LET f == inv[i].f
            n == f.error.attemptNumber
        IN  f.fstate = "FailedExhausted" =>
                /\ n \in 1..5
                /\ f.error = f.errors[n]
                /\ \A j \in 1..5 :
                       TimesSeen(f.errors, f.errors[j].message) <= TimesSeen(f.errors, f.error.message)
                /\ \A j \in (n + 1)..5 :
                       TimesSeen(f.errors, f.errors[j].message) < TimesSeen(f.errors, f.error.message)

C5_Witness ==
    \E i \in Invocations :
        /\ StatusesOf(inv[i].f.resps) = <<500, 500, 429, 500, 429>>
        /\ inv[i].f.fstate = "FailedExhausted"
        /\ inv[i].f.error.attemptNumber = 4

\* C6: the backoff delays of one invocation are each at least 500 ms and at
\* most 4000 ms, and no delay is smaller than the one before it, for every
\* value of the jitter.
C6_DelaysBoundedAndMonotone ==
    \A i \in Invocations :
        LET d == inv[i].f.delays \o inv[i].f.timeouts
        IN  /\ \A k \in 1..Len(d) : d[k] >= 500 /\ d[k] <= 4000
            /\ \A k \in 1..(Len(d) - 1) : d[k] <= d[k + 1]

C6_Witness ==
    \E i \in Invocations :
        LET d == inv[i].f.delays
        IN  /\ Len(d) = 4
            /\ d[1] > 500
            /\ d[1] < d[2]
            /\ d[4] = 4000
            /\ inv[i].f.fstate = "Attempting"

\* C7 as stated: a 429 or 5xx response to a read of the OpenSea plugin is
\* retried under the backoff policy: the plugin call does not fail before the
\* five requests of the policy have been issued.
C7_PluginReadIsRetried ==
    \A i \in Invocations :
        LET c == inv[i].pluginCall
        IN  (c.outcome = "threw" /\ IsTransientResp(c.resp)) => c.requests = 5

\* C8: in get_listings_by_asset and get_offers_by_asset, when the plugin call
\* throws, the error is not surfaced: the handler issues the asset-scoped
\* query through osFetch and the outcome of the tool is that of the HTTP path.
C8_PluginFailureFallsBackToHttp ==
    \A i \in Invocations :
        LET r == inv[i]
        IN  r.pluginCall.outcome = "threw" =>
                /\ r.pc \in {"fetch", "done", "thrown"}
                /\ r.chains # <<>> /\ r.chains[1] = "asset"
                /\ r.chain \in {"asset", "assetCol"}
                /\ r.pc = "thrown" =>
                       (r.f.fstate \in {"FailedTerminal", "FailedExhausted"} /\ r.output.error = r.f.error)
                /\ r.pc = "done" =>
                       /\ r.f.fstate = "Succeeded"
                       /\ r.output.kind = "result"
                       /\ r.output.data = r.f.value.data
                       /\ r.output.rateLimit = r.f.value.rateLimit
                       /\ "rateLimit" \in r.output.keys

C8_Witness ==
    \E i \in Invocations :
        /\ inv[i].pluginCall.outcome = "threw"
        /\ inv[i].pluginCall.resp = StatusResp(404, BodyEmpty)
        /\ inv[i].pc = "done"
        /\ inv[i].output.data.orders = "some"

\* C9: when a plugin is registered under 'opensea', its getListings returns an
\* empty sequence, fallback_to_collection is true, a collection slug is
\* supplied and the arguments parse, the collection-scoped query is issued, and
\* when it succeeds the output is tagged fallback: "collection_listings" and
\* its data is the result of that query, not the empty plugin result.
C9_EmptyPluginResultFallsBack ==
    \A i \in Invocations :
        LET r == inv[i]
        IN  ( /\ r.tool = "get_listings_by_asset"
              /\ r.plugin # NoPlugin
              /\ r.pluginCall.outcome = "returned"
              /\ r.pluginCall.orders.orders = "empty"
              /\ r.raw.fallback = "true"
              /\ r.raw.slug = "valid"
              /\ r.args.success ) =>
                /\ r.chains # <<>> /\ r.chains[1] = "pluginCol"
                /\ (r.chains = <<"pluginCol">> /\ r.f.fstate = "Succeeded" /\ r.pc # "fetch") =>
                       /\ r.pc = "done"
                       /\ r.output.kind = "result"
                       /\ r.output.fallback = "collection_listings"
                       /\ "fallback" \in r.output.keys
                       /\ r.output.data = r.f.value.data

C9_Witness ==
    \E i \in Invocations :
        LET r == inv[i]
        IN  /\ r.tool = "get_listings_by_asset"
            /\ r.plugin = "EmptyPlugin"
            /\ r.pluginCall.outcome = "returned"
            /\ r.chains = <<"pluginCol">>
            /\ r.pc = "done"
            /\ r.output.fallback = "collection_listings"
            /\ r.output.data.orders = "some"

\* C10 as stated: every successful response of a read tool contains a
\* rateLimit field next to data, on every path of get_listings_by_asset and
\* get_offers_by_asset.
C10_EveryResultHasRateLimit ==
    \A i \in Invocations :
        inv[i].output.kind = "result" => {"rateLimit", "data"} \subseteq inv[i].output.keys

\* C11 as stated: an asset tool called with a missing or malformed required
\* parameter issues no HTTP request, and what the caller receives is a
\* validation error.
C11_InvalidInputIsRejected ==
    \A i \in Invocations :
        LET r == inv[i]
        IN  (r.tool \in AssetTools /\ ~r.args.success) =>
                /\ r.requests = 0
                /\ (r.pc \in {"done", "thrown"} => r.output.kind = "validation_error")

\* C12 as stated: no read tool handler terminates by throwing; a failure of
\* osFetch is returned as a tool result.
C12_NoHandlerThrows ==
    \A i \in Invocations :
        LET r == inv[i]
        IN  r.f.fstate \in {"FailedTerminal", "FailedExhausted"} => r.pc # "thrown"

\* C19: when what an attempt throws (fetch rejecting, or the body of a success
\* response failing JSON decoding) is not classified retryable, the invocation
\* has failed with that exception after that attempt: no further request is
\* issued, however many retries remain.
C19_UnclassifiedExceptionIsTerminal ==
    \A i \in Invocations :
        LET f == inv[i].f
        IN  \A k \in 1..Len(f.resps) :
                (f.resps[k].kind \in {"throw", "badjson"} /\ ~isRateLimitOrTransient(f.resps[k].err)) =>
                    /\ k = Len(f.resps)
                    /\ f.attempts = k
                    /\ f.fstate = "FailedTerminal"
                    /\ f.error = f.resps[k].err
                    /\ Len(f.delays) = k - 1

C19_Witness ==
    \E i \in Invocations :
        LET f == inv[i].f
        IN  /\ Len(f.resps) = 2
            /\ f.resps[1] = StatusResp(503, BodyEmpty)
            /\ f.resps[2] = BadJsonResp(JsonPlain)
            /\ f.fstate = "FailedTerminal"
            /\ Len(f.timeouts) = 3

\* C20: the rateLimit of a successful result holds, field by field, the
\* x-ratelimit-limit, -remaining and -reset values of the response whose body
\* was decoded (the last one received, not an earlier failed one), and null
\* for a header that response does not carry.
C20_RateLimitOfDecodedResponse ==
    \A i \in Invocations :
        LET f == inv[i].f
            last == f.resps[Len(f.resps)]
        IN  f.fstate = "Succeeded" =>
                /\ last.kind = "ok"
                /\ f.value.data = last.data
                /\ f.value.rateLimit.limit = last.headers.limit
                /\ f.value.rateLimit.remaining = last.headers.remaining
                /\ f.value.rateLimit.reset = last.headers.reset

C20_Witness ==
    \E i \in Invocations :
        LET f == inv[i].f
        IN  /\ f.fstate = "Succeeded"
            /\ Len(f.resps) = 2
            /\ f.resps[1] = LimitedResp(429, BodyEmpty, ExhaustedHeaders)
            /\ f.resps[2].headers = [limit |-> Null, remaining |-> "59", reset |-> Null]
            /\ f.value.rateLimit = [limit |-> Null, remaining |-> "59", reset |-> Null]

\* a three-digit token whose first digit is 4 or 5
HasStatusToken(m) ==
    \E i \in 1..(Len(m) - 2) : m[i] \in {"4", "5"} /\ m[i + 1] \in Digits /\ m[i + 2] \in Digits

HasTransientWord(m) ==
    \/ HasSub(Lower(m), <<"r", "a", "t", "e">>)
    \/ HasSub(Lower(m), <<"t", "i", "m", "e", "o", "u", "t">>)
    \/ HasSub(Lower(m), <<"n", "e", "t", "w", "o", "r", "k">>)

\* C18 as stated: an Error is classified retryable exactly when its message
\* contains rate, timeout or network in any letter case or a three-digit
\* token beginning with 4 or 5; the failure fetch throws on a connection
\* reset or a timeout is classified retryable; a thrown value that is not an
\* Error is classified terminal.
C18_RetryableIffWordOrStatusToken ==
    (calc.fn = "isRateLimitOrTransient" /\ calc.done) =>
        /\ calc.input.cls \in ErrorClasses =>
                (calc.output <=> (HasTransientWord(calc.input.message) \/ HasStatusToken(calc.input.message)))
        /\ calc.input = FetchFailed => calc.output
        /\ calc.input.cls \notin ErrorClasses => ~calc.output

\* calls that reach the network or a signer
NetworkCalls == {"fetch", "publicClient", "sendTransaction", "writeContract"}

Calls(trace) == {trace[k] : k \in 1..Len(trace)}

C15_EnabledValidSucceeds ==
    (wr.enabled /\ wr.calls > 0 /\ wr.args.amount # "garbage") =>
        /\ wr.output.error = "absent"
        /\ wr.output.message = SuccessText(wr.tool)
        /\ {"message", "preparedTransaction", "executed"} \subseteq wr.output.keys
        /\ wr.output.preparedTransaction = "object"
        /\ wr.output.executed = "false"

\* the implementation of the latest registration under id in log, if any
LastRegistered(log, id) ==
    LET at == {k \in 1..Len(log) : log[k].id = id}
    IN  IF at = {} THEN NoPlugin
        ELSE log[CHOOSE k \in at : \A j \in at : j <= k].impl

\* C16: after any sequence of registrations, getNftPlugin(id) returns the
\* one implementation of the most recent registration under id (absent when
\* there is none); an implementation registered earlier under id and since
\* replaced is not what id resolves to.
C16_LatestRegistrationWins ==
    \A id \in PluginIds :
        /\ getNftPlugin(registry, id) = LastRegistered(regLog, id)
        /\ \A k \in 1..Len(regLog) :
                (regLog[k].id = id /\ \E j \in (k + 1)..Len(regLog) :
                        regLog[j].id = id /\ regLog[j].impl # regLog[k].impl /\
                        \A l \in (j + 1)..Len(regLog) : regLog[l].id # id)
                    => getNftPlugin(registry, id) # regLog[k].impl

C16_Witness ==
    /\ regLog = <<OpenSeaPlugin, MagicEdenPlugin, EmptyPlugin>>
    /\ getNftPlugin(registry, "opensea") = "EmptyPlugin"
    /\ getNftPlugin(registry, "magic-eden") = "MagicEdenPlugin"

\* C17: when the id looked up has no registration, the lookup returns absent
\* and leaves the registry as it is; the get-asset tool then throws 'NFT
\* plugin not registered: <id>' with no plugin operation called and no
\* request issued, and get_listings_by_asset and get_offers_by_asset go on to
\* the asset-scoped query of the HTTP path.
C17_UnregisteredIdIsAbsent ==
    [][\A i \in Invocations :
          LET r == inv[i]
              n == inv'[i]
          IN  /\ (r.pc = "idle" /\ n.tool = "get-asset" /\ registry[n.pluginId] = NoPlugin) =>
                    /\ getNftPlugin(registry, n.pluginId) = NoPlugin
                    /\ registry' = registry
                    /\ n.pc = "thrown"
                    /\ n.output.kind = "throw"
                    /\ n.output.error = NewError("Error", NotRegisteredMessage(n.pluginId))
                    /\ n.skillCall = NoSkillCall
                    /\ n.pluginCall = NoPluginCall
                    /\ n.requests = 0
              /\ (r.pc = "import" /\ n.pc # "import" /\ registry["opensea"] = NoPlugin) =>
                    /\ getNftPlugin(registry, "opensea") = NoPlugin
                    /\ registry' = registry
                    /\ n.pc = "fetch"
                    /\ n.chains = <<"asset">>
                    /\ n.pluginCall = NoPluginCall
                    /\ n.requests = 1
                    /\ n.f.fstate = "Attempting"]_vars

C17_Witness ==
    \E i \in Invocations :
        /\ inv[i].tool = "get-asset"
        /\ inv[i].pluginId = "magic-eden"
        /\ registry["magic-eden"] = NoPlugin
        /\ registry["opensea"] = "OpenSeaPlugin"
        /\ inv[i].pc = "thrown"
        /\ inv[i].output.error.message = NotRegisteredMessage("magic-eden")
        /\ inv[i].skillCall.op = "none"

\* the responses of f that made their attempt fail
FailedAttempts(f) == {k \in 1..Len(f.resps) : f.resps[k].kind # "ok"}

\* C21 as stated: every failed attempt, retryable or terminal, is logged
\* exactly once, with its attempt number n and 5-n attempts remaining.
C21_EveryFailedAttemptIsLogged ==
    \A i \in Invocations :
        LET f == inv[i].f
        IN  /\ Len(f.log) = Cardinality(FailedAttempts(f))
            /\ \A k \in 1..Len(f.log) :
                    /\ f.log[k].attempt = k
                    /\ f.log[k].left = 5 - k

\* the text is 0x followed by 40 characters out of 0-9 and a-f
IsLowerAddress(s) ==
    /\ Len(s) = 42
    /\ s[1] = "0" /\ s[2] = "x"
    /\ \A i \in 3..42 : s[i] \in {"0", "1", "2", "3", "4", "5", "6", "7", "8", "9", "a", "b", "c", "d", "e", "f"}

\* the text without the blanks around it, upper-case hex letters and X made lower case
Cleaned(s) ==
    LET first == CHOOSE i \in 1..(Len(s) + 1) :
                     /\ \A j \in 1..(i - 1) : s[j] \in {" ", "\t"}
                     /\ (i <= Len(s) => s[i] \notin {" ", "\t"})
        last == CHOOSE i \in 0..Len(s) :
                     /\ \A j \in (i + 1)..Len(s) : s[j] \in {" ", "\t"}
                     /\ (i >= 1 => s[i] \notin {" ", "\t"})
        core == IF first > last THEN <<>> ELSE SubSeq(s, first, last)
        low(c) == CASE c = "A" -> "a" [] c = "B" -> "b" [] c = "C" -> "c" [] c = "D" -> "d"
                    [] c = "E" -> "e" [] c = "F" -> "f" [] c = "X" -> "x" [] OTHER -> c
    IN  [i \in 1..Len(core) |-> low(core[i])]

\* C23: address normalization accepts exactly the strings that, trimmed and
\* lower-cased, are 0x plus 40 hex digits, and yields that trimmed, lower-case
\* text (also for mixed case and blanks around); every other input is
\* rejected with a validation issue; normalizing the result again returns it
\* unchanged.
C23_AddressNormalization ==
    (calc.fn = "EthAddressSchema" /\ calc.done) =>
        /\ calc.output.success <=> (calc.input.type = "string" /\ IsLowerAddress(Cleaned(calc.input.text)))
        /\ calc.output.success =>
                /\ IsLowerAddress(calc.output.data)
                /\ calc.output.data = Cleaned(calc.input.text)
        /\ ~calc.output.success =>
                calc.output.issue \in {"Expected string", "address must be a 42-char 0x-prefixed hex string"}
        /\ calc.redone => (calc.again.success /\ calc.again.data = calc.output.data)

C23_Witness ==
    /\ calc.fn = "EthAddressSchema"
    /\ calc.input = StringValue(<<"\t", " ">> \o <<"0", "X">> \o HexMixed \o <<" ">>)
    /\ calc.output = ParseSuccess(<<"0", "x">> \o HexLower)
    /\ calc.redone

\* C22 as stated: every asset returned by a plugin's getAsset through the
\* get-asset tool has a contractAddress that is 0x followed by 40 lower-case
\* hex characters, and a tokenId that is a string.
C22_AssetIsNormalized ==
    \A i \in Invocations :
        LET c == inv[i].skillCall
        IN  (inv[i].tool = "get-asset" /\ c.outcome = "returned") =>
                /\ c.asset.contractAddress.type = "string"
                /\ IsLowerAddress(c.asset.contractAddress.text)
                /\ c.asset.tokenId.type = "string"

\* requests of f issued and not yet completed
InFlight(f) == f.attempts - Len(f.resps)

\* C24: within one osFetch invocation at most one request is in flight, and
\* a further request is issued only from the backoff that follows a completed
\* request whose failure was retryable, when its delay has elapsed (the timer
\* step).
C24_RequestsAreSequential ==
    /\ [](\A i \in Invocations :
            LET f == inv[i].f
            IN  /\ InFlight(f) \in {0, 1}
                /\ InFlight(f) = 1 <=> f.fstate = "Attempting"
                /\ f.fstate = "Backoff" => Len(f.delays) = f.attempts)
    /\ [][\A i \in Invocations :
            LET f == inv[i].f
                g == inv'[i].f
            IN  (g.attempts # f.attempts /\ f.attempts > 0) =>
                    /\ g.attempts = f.attempts + 1
                    /\ f.fstate = "Backoff"
                    /\ Len(f.resps) = f.attempts
                    /\ IsTransientResp(f.resps[f.attempts]) \/ isRateLimitOrTransient(f.resps[f.attempts].err)
                    /\ Len(f.delays) = f.attempts
                    /\ g.fstate = "Attempting"]_vars

C24_Witness ==
    \E i \in Invocations :
        LET f == inv[i].f
        IN  /\ f.attempts = 3
            /\ Len(f.resps) = 2
            /\ Len(f.delays) = 2
            /\ f.fstate = "Attempting"

\* C25: when every request is answered and every backoff delay elapses, an
\* osFetch invocation that has started ends in Succeeded, FailedTerminal or
\* FailedExhausted, and once it has ended its state stays as it is: no
\* further request is issued.
C25_FetchTerminates ==
    /\ \A i \in Invocations :
            (inv[i].f.fstate # "Idle") ~>
                (inv[i].f.fstate \in {"Succeeded", "FailedTerminal", "FailedExhausted"})
    /\ [][\A i \in Invocations :
            inv[i].f.fstate \in {"Succeeded", "FailedTerminal", "FailedExhausted"} =>
                /\ inv'[i].f = inv[i].f
                /\ inv'[i].requests = inv[i].requests]_vars

C25_Witness ==
    \E i \in Invocations :
        /\ inv[i].f.fstate = "FailedExhausted"
        /\ inv[i].f.attempts = 5
        /\ inv[i].pc = "thrown"
        /\ inv[i].requests = 5

\* the fetch state reached from f by the responses resps, each but the last
\* followed by the backoff timer
RECURSIVE ReplayFrom(_, _)
ReplayFrom(f, resps) ==
    IF resps = <<>> THEN f
    ELSE LET g == OnResponse(f, Head(resps))
         IN  IF Tail(resps) = <<>> THEN g ELSE ReplayFrom(OnTimer(g), Tail(resps))

\* the fetch state of an invocation that ran on its own and got the responses resps
Alone(resps) == ReplayFrom(StartFetch([k \in 1..retries |-> 0]), resps)

\* C26: with two invocations interleaved, the attempt counter, the remaining
\* retry budget and the outcome of each are those of an invocation that ran on
\* its own and received the same responses: nothing of the other invocation
\* enters.
C26_InvocationsAreIndependent ==
    \A i \in Pair :
        LET f == inv[i].f
            a == Alone(f.resps)
        IN  f.fstate # "Idle" =>
                /\ Len(f.timeouts) + Len(f.delays) = retries
                /\ f.attempts = Len(f.resps) + (IF f.fstate = "Attempting" THEN 1 ELSE 0)
                /\ IF f.fstate = "Attempting" /\ f.resps # <<>>
                   THEN a.fstate = "Backoff" /\ f = OnTimer(a)
                   ELSE f = a
                /\ inv[i].pc = "done" => (f.fstate = "Succeeded" /\ inv[i].output.data = f.resps[Len(f.resps)].data)
                /\ inv[i].pc = "thrown" => f.fstate \in {"FailedTerminal", "FailedExhausted"}

C26_Witness ==
    /\ inv[1].f.fstate = "FailedExhausted"
    /\ inv[1].f.attempts = 5
    /\ inv[2].f.fstate = "Succeeded"
    /\ inv[2].f.attempts = 2
    /\ Len(inv[2].f.timeouts) = 3
    /\ inv[2].pc = "done"

CollectionChains == {"pluginCol", "assetCol"}

\* the caller opted into the fallback and supplied a collection slug
OptedIn(r) == r.raw.fallback = "true" /\ r.raw.slug = "valid"

\* the step issues the first request of a collection-scoped query of invocation i
IssuesCollectionQuery(i) ==
    /\ Len(inv'[i].chains) = Len(inv[i].chains) + 1
    /\ inv'[i].chains[Len(inv'[i].chains)] \in CollectionChains

\* the asset-scoped result the handler holds before the step: the orders of the
\* plugin read that settles in the step, or the data of the asset-scoped osFetch
AssetScopedResult(i) ==
    IF inv[i].pc = "plugin" THEN inv'[i].pluginCall.orders ELSE inv[i].f.value.data

\* the step ends invocation i with a result
Completes(i) == inv[i].pc # "done" /\ inv'[i].pc = "done"

\* C27: the asset tools issue a collection-scoped query, and tag their output
\* with a fallback field, only when the asset-scoped result was empty, the
\* caller set fallback_to_collection and supplied a collection slug; when one
\* of the three is missing the output is the asset-scoped result without a
\* fallback tag.
C27_FallbackOnlyWhenAsked ==
    [][\A i \in Invocations :
        inv'[i].tool \in AssetTools =>
            /\ IssuesCollectionQuery(i) =>
                    /\ AssetScopedResult(i).orders = "empty"
                    /\ OptedIn(inv[i])
                    /\ inv[i].pc = "plugin" \/ (inv[i].chain = "asset" /\ inv[i].f.fstate = "Succeeded")
            /\ Completes(i) /\ "fallback" \in inv'[i].output.keys =>
                    /\ inv[i].chain \in CollectionChains
                    /\ OptedIn(inv[i])
                    /\ inv'[i].output.fallback = FallbackTag(inv[i].tool)
                    /\ inv'[i].output.data = inv[i].f.value.data
            /\ Completes(i) /\ ~(inv[i].chain \in CollectionChains) =>
                    /\ "fallback" \notin inv'[i].output.keys
                    /\ inv'[i].output.fallback = Null
                    /\ inv'[i].output.data = AssetScopedResult(i)
            /\ ~OptedIn(inv'[i]) =>
                    /\ \A k \in 1..Len(inv'[i].chains) : inv'[i].chains[k] \notin CollectionChains
                    /\ inv'[i].output.fallback = Null
    ]_vars

C27_Witness ==
    \E i \in Invocations :
        /\ inv[i].tool = "get_offers_by_asset"
        /\ inv[i].pc = "done"
        /\ inv[i].chains = <<"pluginCol", "asset", "assetCol">>
        /\ inv[i].output.fallback = "collection_offers"
        /\ inv[i].raw = [contract |-> "valid", token |-> "valid", slug |-> "valid", fallback |-> "true"]

\* the osFetch calls one invocation of an asset tool can make, in order
AssetChainOrders ==
    { <<>>, <<"pluginCol">>, <<"pluginCol", "asset">>, <<"pluginCol", "asset", "assetCol">>,
      <<"asset">>, <<"asset", "assetCol">> }

\* C28: one invocation of get_listings_by_asset issues at most 16 marketplace
\* requests: one request of the plugin and at most three osFetch calls of at
\* most five requests each, the failed fallback query of the plugin-backed
\* path being swallowed and followed by the asset-scoped HTTP query.
C28_AtMostSixteenRequests ==
    \A i \in Invocations :
        inv[i].tool = "get_listings_by_asset" =>
            /\ inv[i].requests <= 1 + 3 * (retries + 1)
            /\ inv[i].pluginCall.requests <= 1
            /\ inv[i].chains \in AssetChainOrders
            /\ inv[i].requests <= inv[i].pluginCall.requests + (retries + 1) * Len(inv[i].chains)
            /\ inv[i].pc = "thrown" => inv[i].chain \in {"asset", "assetCol"}
            /\ Len(inv[i].chains) >= 2 /\ inv[i].chains[1] = "pluginCol" =>
                    inv[i].pluginCall.outcome = "returned"

C28_Witness ==
    \E i \in Invocations :
        /\ inv[i].tool = "get_listings_by_asset"
        /\ inv[i].requests = 16
        /\ inv[i].chains = <<"pluginCol", "asset", "assetCol">>
        /\ inv[i].pluginCall.requests = 1
        /\ inv[i].pc = "thrown"

\* what the read of implementation impl gives for the response resp
ReadOf(impl, resp) == IF impl = "OpenSeaPlugin" THEN PluginGetOrders(resp) ELSE EmptyOrders

\* C29: a registration that replaces 'opensea' while get_listings_by_asset is
\* suspended in its plugin read leaves the invocation as it is; the read is
\* answered by the implementation resolved at the lookup, whatever the
\* registry holds by then, and a lookup takes the entry registered last.
C29_RegistrationDoesNotReachSuspendedCall ==
    [][\A i \in Invocations :
        inv[i].tool = "get_listings_by_asset" =>
            /\ inv[i].pc = "plugin" /\ registry' # registry => inv'[i] = inv[i]
            /\ inv[i].pc = "plugin" /\ inv'[i].pc # "plugin" =>
                    LET res == ReadOf(inv[i].plugin, inv'[i].pluginCall.resp)
                    IN  /\ inv'[i].plugin = inv[i].plugin
                        /\ inv'[i].pluginCall.requests = inv[i].pluginCall.requests
                        /\ inv'[i].pluginCall.outcome = IF res.ret = "throw" THEN "threw" ELSE "returned"
                        /\ res.ret = "return" => inv'[i].pluginCall.orders = res.value
                        /\ res.ret = "return" /\ inv'[i].pc = "done" => inv'[i].output.data = res.value
            /\ inv[i].pc = "import" /\ inv'[i].pc = "plugin" =>
                    /\ inv'[i].plugin = registry["opensea"]
                    /\ inv'[i].pluginCall.requests = IF registry["opensea"] = "OpenSeaPlugin" THEN 1 ELSE 0
    ]_vars

C29_Witness ==
    \E i \in Invocations :
        /\ inv[i].tool = "get_listings_by_asset"
        /\ inv[i].pc = "plugin"
        /\ inv[i].plugin = "OpenSeaPlugin"
        /\ registry["opensea"] = "EmptyPlugin"

\* a supplied field of the raw arguments fails its schema
FailsValidation(raw) == raw.contract = "malformed" \/ raw.slug = "blank"

\* C30: when a supplied field fails validation the asset tools query the
\* built-in default contract and token, and drop collection_slug and
\* fallback_to_collection also when these were valid; the invocation issues
\* no collection-scoped query and returns no fallback tag.
C30_FailedValidationDropsEveryField ==
    \A i \in Invocations :
        inv[i].tool \in AssetTools /\ FailsValidation(inv[i].raw) =>
            /\ ~inv[i].args.success
            /\ inv[i].args.contract_address = "default"
            /\ inv[i].args.token_id = "default"
            /\ ~inv[i].args.collection_slug
            /\ ~inv[i].args.fallback_to_collection
            /\ \A k \in 1..Len(inv[i].chains) : inv[i].chains[k] \notin {"pluginCol", "assetCol"}
            /\ inv[i].output.fallback = Null
            /\ "fallback" \notin inv[i].output.keys

C30_Witness ==
    \E i \in Invocations :
        /\ inv[i].tool = "get_listings_by_asset"
        /\ inv[i].raw = [contract |-> "malformed", token |-> "valid", slug |-> "valid", fallback |-> "true"]
        /\ inv[i].pc = "done"
        /\ inv[i].chains = <<"asset">>
        /\ inv[i].output.data.orders = "empty"

====
